---- MODULE Spec2Model ----
(***************************************************************************)
(* Model of the roommate matching engine (core/matching/engine.py) and of  *)
(* the calls made on it.                                                   *)
(*                                                                         *)
(* Numbers.  Python floats are replaced by exact integer arithmetic:       *)
(*   - coordinates are degrees * 10^4 (37.7749 is 377749);                 *)
(*   - distances are whole metres (the km value * 1000, truncated);        *)
(*   - the rounded distance of a result is in hundredths of a km;          *)
(*   - table coefficients are tenths (0.8 is 8);                           *)
(*   - int(x) of a quotient n/d is Trunc(n, d), truncation toward zero.    *)
(***************************************************************************)
EXTENDS Integers, Sequences, FiniteSets, TLC

VARIABLES seeker, candidate, engines, calls, service, messages, conversations

vars == <<seeker, candidate, engines, calls, service, messages, conversations>>

(***************************************************************************)
(* Bounds of the model.                                                    *)
(***************************************************************************)
MaxBudgetSteps == 8
NumEngines == 2
NumCalls == 2

(***************************************************************************)
(* Arithmetic helpers.                                                     *)
(***************************************************************************)
Trunc(n, d) == IF n >= 0 THEN n \div d ELSE -((-n) \div d)

Max2(a, b) == IF a >= b THEN a ELSE b

Min2(a, b) == IF a <= b THEN a ELSE b

Abs(a) == IF a >= 0 THEN a ELSE -a

DictGet(dict, key, default) == IF key \in DOMAIN dict THEN dict[key] ELSE default

(***************************************************************************)
(* Enumerations of the engine.                                             *)
(***************************************************************************)
MatchReason ==
    {"budget_match", "location_close", "cleanliness_match",
     "sleep_schedule_match", "lifestyle_match", "availability_match",
     "work_status_match"}

ConflictWarning ==
    {"budget_mismatch", "location_far", "cleanliness_conflict",
     "sleep_conflict", "smoking_conflict", "pets_conflict",
     "guest_frequency_conflict"}

CleanlinessLevel == {"very_clean", "clean", "moderate", "relaxed"}

SleepSchedule == {"early_bird", "normal", "night_owl"}

GuestFrequency == {"never", "rarely", "sometimes", "often"}

(***************************************************************************)
(* Constants of MatchingEngineV1.                                          *)
(***************************************************************************)
WEIGHT_BUDGET == 20
WEIGHT_LOCATION == 25
WEIGHT_CLEANLINESS == 15
WEIGHT_SLEEP == 10
WEIGHT_LIFESTYLE == 15
WEIGHT_AVAILABILITY == 10
WEIGHT_REPUTATION == 5

\* Distance thresholds, in metres.
DISTANCE_EXCELLENT == 5 * 1000
DISTANCE_GOOD == 15 * 1000
DISTANCE_ACCEPTABLE == 30 * 1000
DISTANCE_FAR == 50 * 1000

\* Coefficients in tenths.
CLEANLINESS_COMPATIBILITY ==
    (<<"very_clean", "very_clean">> :> 10) @@
    (<<"very_clean", "clean">> :> 8) @@
    (<<"very_clean", "moderate">> :> 4) @@
    (<<"very_clean", "relaxed">> :> 0) @@
    (<<"clean", "clean">> :> 10) @@
    (<<"clean", "moderate">> :> 7) @@
    (<<"clean", "relaxed">> :> 3) @@
    (<<"moderate", "moderate">> :> 10) @@
    (<<"moderate", "relaxed">> :> 7) @@
    (<<"relaxed", "relaxed">> :> 10)

SLEEP_COMPATIBILITY ==
    (<<"early_bird", "early_bird">> :> 10) @@
    (<<"early_bird", "normal">> :> 7) @@
    (<<"early_bird", "night_owl">> :> 2) @@
    (<<"normal", "normal">> :> 10) @@
    (<<"normal", "night_owl">> :> 7) @@
    (<<"night_owl", "night_owl">> :> 10)

\* A new engine instance: its only attribute is max_distance_km (in km).
MatchingEngineV1(max_distance_km) == [max_distance_km |-> max_distance_km]

(***************************************************************************)
(* Profiles.  base_profile is the fixture of the engine's tests; the poor  *)
(* profile is the candidate of test_poor_match.                            *)
(***************************************************************************)
base_profile ==
    [user_id |-> 1, age |-> 25,
     latitude |-> 377749, longitude |-> -1224194, city |-> "San Francisco",
     looking_for_short_term |-> FALSE, looking_for_long_term |-> TRUE,
     move_in_earliest |-> "None", move_in_latest |-> "None",
     budget_min |-> 1000, budget_max |-> 1500,
     cleanliness_level |-> "clean", sleep_schedule |-> "normal",
     smoking_ok |-> FALSE, drinking_ok |-> TRUE, pets_ok |-> FALSE,
     guest_frequency |-> "sometimes",
     is_student |-> FALSE, is_working |-> TRUE,
     reputation_score |-> 100]

poor_profile ==
    [base_profile EXCEPT
        !.budget_min = 3000, !.budget_max = 4000,
        !.latitude = 407128, !.longitude = -740060,
        !.cleanliness_level = "relaxed", !.sleep_schedule = "night_owl",
        !.smoking_ok = TRUE, !.pets_ok = TRUE]

BaseProfiles == {base_profile, poor_profile}

\* Coordinates used by the model, as <<latitude, longitude>>.
GeoPoints ==
    {<<377749, -1224194>>,   \* San Francisco (test fixture)
     <<377599, -1224148>>,   \* Mission District
     <<378044, -1222712>>,   \* Oakland
     <<375630, -1223255>>,   \* San Mateo
     <<376688, -1220808>>,   \* Hayward
     <<407128, -740060>>}    \* New York (test fixture)

BudgetValues == {1000 + 100 * i : i \in 0..MaxBudgetSteps}

\* budget_max >= budget_min is enforced by PreferencesBase.validate_budget_range.
BudgetRanges == {r \in BudgetValues \X BudgetValues : r[1] <= r[2]}

\* 0..100 is enforced by the score_range check constraint of Reputation.
Reputations == {r \in 0..100 : r % 20 \in {0, 19} \/ r = 50}

WellFormed(p) ==
    /\ p.budget_min <= p.budget_max
    /\ p.budget_min > 0
    /\ p.cleanliness_level \in CleanlinessLevel
    /\ p.sleep_schedule \in SleepSchedule
    /\ p.guest_frequency \in GuestFrequency
    /\ p.reputation_score \in 0..100

\* The profiles that differ from b in the fields of one scoring component
\* (the term flags and the reputation, which carry no reason of their own
\* or no conflict, vary together).
BudgetVariants(b) ==
    {[b EXCEPT !.budget_min = r[1], !.budget_max = r[2]] : r \in BudgetRanges}

LocationVariants(b) ==
    {[b EXCEPT !.latitude = g[1], !.longitude = g[2]] : g \in GeoPoints}

CleanlinessVariants(b) ==
    {[b EXCEPT !.cleanliness_level = c] : c \in CleanlinessLevel}

SleepVariants(b) ==
    {[b EXCEPT !.sleep_schedule = s] : s \in SleepSchedule}

LifestyleVariants(b) ==
    {[b EXCEPT !.smoking_ok = l[1], !.pets_ok = l[2], !.guest_frequency = l[3]] :
        l \in BOOLEAN \X BOOLEAN \X GuestFrequency}

TermReputationVariants(b) ==
    {[b EXCEPT !.looking_for_short_term = t[1], !.looking_for_long_term = t[2],
               !.reputation_score = t[3]] :
        t \in BOOLEAN \X BOOLEAN \X Reputations}

\* Move-in windows as <<move_in_earliest, move_in_latest>>, ISO dates or None.
MoveInWindows ==
    {<<"None", "None">>, <<"2025-01-01", "None">>,
     <<"2025-01-01", "2025-02-01">>, <<"2025-06-01", "2025-07-01">>}

MoveInVariants(b) ==
    {[b EXCEPT !.move_in_earliest = w[1], !.move_in_latest = w[2]] : w \in MoveInWindows}

\* Another user_id, age, city, drinking_ok or work status.
UnscoredVariants(b) ==
    {[b EXCEPT !.user_id = 3], [b EXCEPT !.age = 40], [b EXCEPT !.city = "Oakland"],
     [b EXCEPT !.drinking_ok = ~@],
     [b EXCEPT !.is_student = TRUE, !.is_working = FALSE]}

Variants(b) ==
    BudgetVariants(b) \cup LocationVariants(b) \cup CleanlinessVariants(b)
    \cup SleepVariants(b) \cup LifestyleVariants(b) \cup TermReputationVariants(b)
    \cup MoveInVariants(b) \cup UnscoredVariants(b)

ProfilePool == UNION {Variants(b) : b \in BaseProfiles}

(***************************************************************************)
(* The scoring routines of MatchingEngineV1.  self is the engine instance. *)
(***************************************************************************)

\* Variant of _score_budget: the computed bounds are returned also when the
\* ranges do not overlap.
_score_budget_keeps_bounds(self, s, c) ==
    LET overlap_min == Max2(s.budget_min, c.budget_min)
        overlap_max == Min2(s.budget_max, c.budget_max)
        widths == (s.budget_max - s.budget_min) + (c.budget_max - c.budget_min)
    IN  IF overlap_max < overlap_min
        THEN <<0, <<overlap_min, overlap_max>>>>
        ELSE <<IF widths = 0 \/ 2 * (overlap_max - overlap_min) >= widths
               THEN WEIGHT_BUDGET
               ELSE Trunc(2 * (overlap_max - overlap_min) * WEIGHT_BUDGET, widths),
               <<overlap_min, overlap_max>>>>

\* Variant of _score_budget: round() in place of int().
_score_budget_rounded(self, s, c) ==
    LET overlap_min == Max2(s.budget_min, c.budget_min)
        overlap_max == Min2(s.budget_max, c.budget_max)
        widths == (s.budget_max - s.budget_min) + (c.budget_max - c.budget_min)
    IN  IF overlap_max < overlap_min
        THEN <<0, <<0, 0>>>>
        ELSE <<IF widths = 0 \/ 2 * (overlap_max - overlap_min) >= widths
               THEN WEIGHT_BUDGET
               ELSE (2 * 2 * (overlap_max - overlap_min) * WEIGHT_BUDGET + widths)
                        \div (2 * widths),
               <<overlap_min, overlap_max>>>>

\* Variant of _score_budget: the overlap is measured against the seeker's
\* range alone.
_score_budget_seeker_range(self, s, c) ==
    LET overlap_min == Max2(s.budget_min, c.budget_min)
        overlap_max == Min2(s.budget_max, c.budget_max)
        seeker_range == s.budget_max - s.budget_min
    IN  IF overlap_max < overlap_min
        THEN <<0, <<0, 0>>>>
        ELSE <<IF seeker_range = 0 \/ overlap_max - overlap_min >= seeker_range
               THEN WEIGHT_BUDGET
               ELSE Trunc((overlap_max - overlap_min) * WEIGHT_BUDGET, seeker_range),
               <<overlap_min, overlap_max>>>>

\* Returns <<score, <<overlap_min, overlap_max>>>>.  Past the early return
\* both ranges have non-negative width, so avg_range >= 0; the quotient
\* overlap_range / avg_range is kept as twice-the-overlap over the sum of
\* the two widths.  The double-precision value of ratio * 20 has the same
\* integer part as the exact one (a quotient that is a whole number of
\* twentieths multiplies back to that whole number), and so has
\* reputation_score / 100 * 5 below.
_score_budget(self, s, c) ==
    LET overlap_min == Max2(s.budget_min, c.budget_min)
        overlap_max == Min2(s.budget_max, c.budget_max)
        overlap_range == overlap_max - overlap_min
        seeker_range == s.budget_max - s.budget_min
        candidate_range == c.budget_max - c.budget_min
        avg_range_x2 == seeker_range + candidate_range
        overlap_ratio ==
            IF avg_range_x2 = 0 THEN <<1, 1>>
            ELSE IF 2 * overlap_range >= avg_range_x2 THEN <<1, 1>>
            ELSE <<2 * overlap_range, avg_range_x2>>
    IN  IF overlap_max < overlap_min
        THEN <<0, <<0, 0>>>>
        ELSE <<Trunc(overlap_ratio[1] * WEIGHT_BUDGET, overlap_ratio[2]),
               <<overlap_min, overlap_max>>>>

\* Great-circle distances in whole metres between the points of GeoPoints,
\* as the haversine formula with R = 6371 km gives them.
HaversineMetres ==
    (<<<<377749, -1224194>>, <<377599, -1224148>>>> :> 1716) @@
    (<<<<377749, -1224194>>, <<378044, -1222712>>>> :> 13429) @@
    (<<<<377749, -1224194>>, <<375630, -1223255>>>> :> 24969) @@
    (<<<<377749, -1224194>>, <<376688, -1220808>>>> :> 32032) @@
    (<<<<377749, -1224194>>, <<407128, -740060>>>> :> 4129086) @@
    (<<<<377599, -1224148>>, <<378044, -1222712>>>> :> 13555) @@
    (<<<<377599, -1224148>>, <<375630, -1223255>>>> :> 23262) @@
    (<<<<377599, -1224148>>, <<376688, -1220808>>>> :> 31076) @@
    (<<<<377599, -1224148>>, <<407128, -740060>>>> :> 4129279) @@
    (<<<<378044, -1222712>>, <<375630, -1223255>>>> :> 27264) @@
    (<<<<378044, -1222712>>, <<376688, -1220808>>>> :> 22531) @@
    (<<<<378044, -1222712>>, <<407128, -740060>>>> :> 4115728) @@
    (<<<<375630, -1223255>>, <<376688, -1220808>>>> :> 24554) @@
    (<<<<375630, -1223255>>, <<407128, -740060>>>> :> 4129470) @@
    (<<<<376688, -1220808>>, <<407128, -740060>>>> :> 4105178) @@
    (<<<<377749, -1224194>>, <<-120000, 705000>>>> :> 16874459) @@
    (<<<<377749, -1224194>>, <<120000, -1095000>>>> :> 3140627) @@
    (<<<<407128, -740060>>, <<-120000, 705000>>>> :> 15308072) @@
    (<<<<407128, -740060>>, <<120000, -1095000>>>> :> 4707013)

\* Two antipodal points, (-12.0, 70.5) and (12.0, -109.5), for which the
\* double-precision value of a in the haversine formula exceeds 1.
AntipodalPoints == {<<-120000, 705000>>, <<120000, -1095000>>}

\* The pairs of points for which math.sqrt(1 - a) is given a negative
\* argument and raises ValueError.
SqrtDomainError == {pq \in AntipodalPoints \X AntipodalPoints : pq[1] # pq[2]}

_calculate_distance_raises(self, lat1, lon1, lat2, lon2) ==
    <<<<lat1, lon1>>, <<lat2, lon2>>>> \in SqrtDomainError

\* The result is in metres.  Equal points give exactly 0.
_calculate_distance(self, lat1, lon1, lat2, lon2) ==
    LET p == <<lat1, lon1>>
        q == <<lat2, lon2>>
    IN  IF p = q THEN 0
        ELSE IF <<p, q>> \in DOMAIN HaversineMetres THEN HaversineMetres[<<p, q>>]
        ELSE HaversineMetres[<<q, p>>]

\* Whole-metre distances up to 60 km at which the double-precision value of
\* the band expression is just below the exact integer, so that int() gives
\* one point less than exact arithmetic (28.125 km, 46 km and 48 km).
DoubleRoundingLoss == {28125, 46000, 48000}

\* Variant of _score_location: the 5-15 km band adds the reduction.
_score_location_sign(self, distance_km) ==
    IF distance_km <= DISTANCE_EXCELLENT THEN WEIGHT_LOCATION
    ELSE IF distance_km <= DISTANCE_GOOD THEN
        Trunc(WEIGHT_LOCATION
                * (10 * (DISTANCE_GOOD - DISTANCE_EXCELLENT)
                   + 2 * (distance_km - DISTANCE_EXCELLENT)),
              10 * (DISTANCE_GOOD - DISTANCE_EXCELLENT))
    ELSE IF distance_km <= DISTANCE_ACCEPTABLE THEN
        Trunc(WEIGHT_LOCATION
                * (10 * (DISTANCE_ACCEPTABLE - DISTANCE_GOOD)
                   - 4 * (distance_km - DISTANCE_GOOD)) * 8,
              10 * (DISTANCE_ACCEPTABLE - DISTANCE_GOOD) * 10)
    ELSE IF distance_km <= DISTANCE_FAR THEN
        Trunc(WEIGHT_LOCATION
                * ((DISTANCE_FAR - DISTANCE_ACCEPTABLE)
                   - (distance_km - DISTANCE_ACCEPTABLE)) * 4,
              (DISTANCE_FAR - DISTANCE_ACCEPTABLE) * 10)
    ELSE 0

\* Variant of _score_location: anything beyond the engine's max_distance_km
\* scores 0.
_score_location_max_distance(self, distance_km) ==
    IF distance_km > self.max_distance_km * 1000 THEN 0
    ELSE IF distance_km <= DISTANCE_EXCELLENT THEN WEIGHT_LOCATION
    ELSE IF distance_km <= DISTANCE_GOOD THEN
        Trunc(WEIGHT_LOCATION
                * (10 * (DISTANCE_GOOD - DISTANCE_EXCELLENT)
                   - 2 * (distance_km - DISTANCE_EXCELLENT)),
              10 * (DISTANCE_GOOD - DISTANCE_EXCELLENT))
    ELSE IF distance_km <= DISTANCE_ACCEPTABLE THEN
        Trunc(WEIGHT_LOCATION
                * (10 * (DISTANCE_ACCEPTABLE - DISTANCE_GOOD)
                   - 4 * (distance_km - DISTANCE_GOOD)) * 8,
              10 * (DISTANCE_ACCEPTABLE - DISTANCE_GOOD) * 10)
    ELSE IF distance_km <= DISTANCE_FAR THEN
        Trunc(WEIGHT_LOCATION
                * ((DISTANCE_FAR - DISTANCE_ACCEPTABLE)
                   - (distance_km - DISTANCE_ACCEPTABLE)) * 4,
              (DISTANCE_FAR - DISTANCE_ACCEPTABLE) * 10)
    ELSE 0

\* Variant of _score_location: the band beyond DISTANCE_ACCEPTABLE starts
\* from 0.8 of the weight.
_score_location_far_band(self, distance_km) ==
    IF distance_km <= DISTANCE_EXCELLENT THEN WEIGHT_LOCATION
    ELSE IF distance_km <= DISTANCE_GOOD THEN
        Trunc(WEIGHT_LOCATION
                * (10 * (DISTANCE_GOOD - DISTANCE_EXCELLENT)
                   - 2 * (distance_km - DISTANCE_EXCELLENT)),
              10 * (DISTANCE_GOOD - DISTANCE_EXCELLENT))
    ELSE IF distance_km <= DISTANCE_ACCEPTABLE THEN
        Trunc(WEIGHT_LOCATION
                * (10 * (DISTANCE_ACCEPTABLE - DISTANCE_GOOD)
                   - 4 * (distance_km - DISTANCE_GOOD)) * 8,
              10 * (DISTANCE_ACCEPTABLE - DISTANCE_GOOD) * 10)
    ELSE IF distance_km <= DISTANCE_FAR THEN
        Trunc(WEIGHT_LOCATION
                * ((DISTANCE_FAR - DISTANCE_ACCEPTABLE)
                   - (distance_km - DISTANCE_ACCEPTABLE)) * 8,
              (DISTANCE_FAR - DISTANCE_ACCEPTABLE) * 10)
    ELSE 0

\* distance_km in metres.
_score_location(self, distance_km) ==
    LET loss == IF distance_km \in DoubleRoundingLoss THEN 1 ELSE 0
    IN  IF distance_km <= DISTANCE_EXCELLENT THEN WEIGHT_LOCATION
        ELSE IF distance_km <= DISTANCE_GOOD THEN
            LET span == DISTANCE_GOOD - DISTANCE_EXCELLENT
            IN  Trunc(WEIGHT_LOCATION
                        * (10 * span - 2 * (distance_km - DISTANCE_EXCELLENT)),
                      10 * span) - loss
        ELSE IF distance_km <= DISTANCE_ACCEPTABLE THEN
            LET span == DISTANCE_ACCEPTABLE - DISTANCE_GOOD
            IN  Trunc(WEIGHT_LOCATION
                        * (10 * span - 4 * (distance_km - DISTANCE_GOOD)) * 8,
                      10 * span * 10) - loss
        ELSE IF distance_km <= DISTANCE_FAR THEN
            LET span == DISTANCE_FAR - DISTANCE_ACCEPTABLE
            IN  Trunc(WEIGHT_LOCATION
                        * (span - (distance_km - DISTANCE_ACCEPTABLE)) * 4,
                      span * 10) - loss
        ELSE 0

\* Variant of _score_cleanliness: the reversed pair is not looked up.
_score_cleanliness_one_way(self, s, c) ==
    Trunc(DictGet(CLEANLINESS_COMPATIBILITY,
                  <<s.cleanliness_level, c.cleanliness_level>>, 5)
            * WEIGHT_CLEANLINESS, 10)

_score_cleanliness(self, s, c) ==
    LET pair == <<s.cleanliness_level, c.cleanliness_level>>
        reverse_pair == <<c.cleanliness_level, s.cleanliness_level>>
        compatibility ==
            DictGet(CLEANLINESS_COMPATIBILITY, pair,
                    DictGet(CLEANLINESS_COMPATIBILITY, reverse_pair, 5))
    IN  Trunc(compatibility * WEIGHT_CLEANLINESS, 10)

\* Variant of _score_sleep_schedule: the reversed pair is not looked up.
_score_sleep_schedule_one_way(self, s, c) ==
    Trunc(DictGet(SLEEP_COMPATIBILITY,
                  <<s.sleep_schedule, c.sleep_schedule>>, 5)
            * WEIGHT_SLEEP, 10)

_score_sleep_schedule(self, s, c) ==
    LET pair == <<s.sleep_schedule, c.sleep_schedule>>
        reverse_pair == <<c.sleep_schedule, s.sleep_schedule>>
        compatibility ==
            DictGet(SLEEP_COMPATIBILITY, pair,
                    DictGet(SLEEP_COMPATIBILITY, reverse_pair, 5))
    IN  Trunc(compatibility * WEIGHT_SLEEP, 10)

_guest_frequency_value(self, frequency) ==
    DictGet(("never" :> 0) @@ ("rarely" :> 1) @@ ("sometimes" :> 2) @@ ("often" :> 3),
            frequency, 1)

\* Variant of _score_lifestyle: a smoking or pets conflict whenever the flags
\* differ.
_score_lifestyle_either_way(self, s, c) ==
    LET smoking ==
            IF s.smoking_ok = c.smoking_ok THEN <<5, <<>>>>
            ELSE <<0, <<"smoking_conflict">>>>
        pets ==
            IF s.pets_ok = c.pets_ok THEN <<5, <<>>>>
            ELSE <<0, <<"pets_conflict">>>>
        guest_diff == Abs(_guest_frequency_value(self, s.guest_frequency)
                          - _guest_frequency_value(self, c.guest_frequency))
        guests ==
            IF guest_diff = 0 THEN <<5, <<>>>>
            ELSE IF guest_diff = 1 THEN <<3, <<>>>>
            ELSE IF guest_diff >= 3 THEN <<0, <<"guest_frequency_conflict">>>>
            ELSE <<0, <<>>>>
    IN  <<smoking[1] + pets[1] + guests[1], smoking[2] \o pets[2] \o guests[2]>>

\* Variant of _score_lifestyle: a guest-frequency conflict from a difference
\* of 2.
_score_lifestyle_guest_two(self, s, c) ==
    LET smoking ==
            IF s.smoking_ok = c.smoking_ok THEN <<5, <<>>>>
            ELSE IF ~s.smoking_ok /\ c.smoking_ok THEN <<0, <<"smoking_conflict">>>>
            ELSE <<0, <<>>>>
        pets ==
            IF s.pets_ok = c.pets_ok THEN <<5, <<>>>>
            ELSE IF ~s.pets_ok /\ c.pets_ok THEN <<0, <<"pets_conflict">>>>
            ELSE <<0, <<>>>>
        guest_diff == Abs(_guest_frequency_value(self, s.guest_frequency)
                          - _guest_frequency_value(self, c.guest_frequency))
        guests ==
            IF guest_diff = 0 THEN <<5, <<>>>>
            ELSE IF guest_diff = 1 THEN <<3, <<>>>>
            ELSE IF guest_diff >= 2 THEN <<0, <<"guest_frequency_conflict">>>>
            ELSE <<0, <<>>>>
    IN  <<smoking[1] + pets[1] + guests[1], smoking[2] \o pets[2] \o guests[2]>>

\* Variant of _score_lifestyle: the guest-frequency points for a difference
\* of 0 and of 1 are exchanged.
_score_lifestyle_swapped(self, s, c) ==
    LET smoking ==
            IF s.smoking_ok = c.smoking_ok THEN <<5, <<>>>>
            ELSE IF ~s.smoking_ok /\ c.smoking_ok THEN <<0, <<"smoking_conflict">>>>
            ELSE <<0, <<>>>>
        pets ==
            IF s.pets_ok = c.pets_ok THEN <<5, <<>>>>
            ELSE IF ~s.pets_ok /\ c.pets_ok THEN <<0, <<"pets_conflict">>>>
            ELSE <<0, <<>>>>
        guest_diff == Abs(_guest_frequency_value(self, s.guest_frequency)
                          - _guest_frequency_value(self, c.guest_frequency))
        guests ==
            IF guest_diff = 0 THEN <<3, <<>>>>
            ELSE IF guest_diff = 1 THEN <<5, <<>>>>
            ELSE IF guest_diff >= 3 THEN <<0, <<"guest_frequency_conflict">>>>
            ELSE <<0, <<>>>>
    IN  <<smoking[1] + pets[1] + guests[1], smoking[2] \o pets[2] \o guests[2]>>

\* Returns <<score, conflicts>>.
_score_lifestyle(self, s, c) ==
    LET smoking ==
            IF s.smoking_ok = c.smoking_ok THEN <<5, <<>>>>
            ELSE IF ~s.smoking_ok /\ c.smoking_ok THEN <<0, <<"smoking_conflict">>>>
            ELSE <<0, <<>>>>
        pets ==
            IF s.pets_ok = c.pets_ok THEN <<5, <<>>>>
            ELSE IF ~s.pets_ok /\ c.pets_ok THEN <<0, <<"pets_conflict">>>>
            ELSE <<0, <<>>>>
        guest_diff == Abs(_guest_frequency_value(self, s.guest_frequency)
                          - _guest_frequency_value(self, c.guest_frequency))
        guests ==
            IF guest_diff = 0 THEN <<5, <<>>>>
            ELSE IF guest_diff = 1 THEN <<3, <<>>>>
            ELSE IF guest_diff >= 3 THEN <<0, <<"guest_frequency_conflict">>>>
            ELSE <<0, <<>>>>
    IN  <<smoking[1] + pets[1] + guests[1], smoking[2] \o pets[2] \o guests[2]>>

\* Variant of _score_availability: with both move-in windows given, windows
\* that do not overlap score 0.
_score_availability_dates(self, s, c) ==
    LET seeker_terms ==
            (IF s.looking_for_short_term THEN {"short"} ELSE {})
            \cup (IF s.looking_for_long_term THEN {"long"} ELSE {})
        candidate_terms ==
            (IF c.looking_for_short_term THEN {"short"} ELSE {})
            \cup (IF c.looking_for_long_term THEN {"long"} ELSE {})
        month == ("2025-01-01" :> 1) @@ ("2025-02-01" :> 2)
                 @@ ("2025-06-01" :> 6) @@ ("2025-07-01" :> 7)
        dated(p) == p.move_in_earliest # "None" /\ p.move_in_latest # "None"
    IN  IF seeker_terms \cap candidate_terms = {} THEN 0
        ELSE IF /\ dated(s) /\ dated(c)
                /\ \/ month[s.move_in_latest] < month[c.move_in_earliest]
                   \/ month[c.move_in_latest] < month[s.move_in_earliest]
             THEN 0
        ELSE WEIGHT_AVAILABILITY

_score_availability(self, s, c) ==
    LET seeker_terms ==
            (IF s.looking_for_short_term THEN {"short"} ELSE {})
            \cup (IF s.looking_for_long_term THEN {"long"} ELSE {})
        candidate_terms ==
            (IF c.looking_for_short_term THEN {"short"} ELSE {})
            \cup (IF c.looking_for_long_term THEN {"long"} ELSE {})
    IN  IF seeker_terms \cap candidate_terms = {} THEN 0
        ELSE WEIGHT_AVAILABILITY

\* Variant of _score_reputation: round() in place of int().
_score_reputation_rounded(self, c) ==
    (c.reputation_score * WEIGHT_REPUTATION + 50) \div 100

\* Variant of _score_reputation: the scale is inverted.
_score_reputation_inverted(self, c) ==
    Trunc((100 - c.reputation_score) * WEIGHT_REPUTATION, 100)

_score_reputation(self, c) ==
    Trunc(c.reputation_score * WEIGHT_REPUTATION, 100)

\* Variant of sort_reasons: ascending sort, then reversed, which turns the
\* order of pairs with equal points around.
RECURSIVE sort_reasons_reversed(_)
sort_reasons_reversed(reasons) ==
    IF reasons = <<>> THEN <<>>
    ELSE LET sorted == sort_reasons_reversed(SubSeq(reasons, 1, Len(reasons) - 1))
             x == reasons[Len(reasons)]
             k == Cardinality({i \in 1..Len(sorted) : sorted[i][2] > x[2]})
         IN  SubSeq(sorted, 1, k) \o <<x>> \o SubSeq(sorted, k + 1, Len(sorted))

\* list.sort(key = points, reverse = True): stable, descending by points.
RECURSIVE sort_reasons(_)
sort_reasons(reasons) ==
    IF reasons = <<>> THEN <<>>
    ELSE LET sorted == sort_reasons(SubSeq(reasons, 1, Len(reasons) - 1))
             x == reasons[Len(reasons)]
             k == Cardinality({i \in 1..Len(sorted) : sorted[i][2] >= x[2]})
         IN  SubSeq(sorted, 1, k) \o <<x>> \o SubSeq(sorted, k + 1, Len(sorted))

\* round(distance_km, 2), from metres to hundredths of a km.
round2(distance_km) == (distance_km + 5) \div 10

(***************************************************************************)
(* calculate_match.  A frame holds the position and the local variables of *)
(* one call; the body is given component by component, each part mapping   *)
(* the frame before it to the frame after it.                              *)
(***************************************************************************)
NoResult ==
    [user_id |-> 0, score |-> 0,
     explanation |-> [score |-> 0, top_reasons |-> <<>>, conflicts |-> <<>>,
                      distance_km |-> 0, budget_overlap |-> <<0, 0>>]]

NewFrame ==
    [pc |-> "idle", engine |-> 0,
     score |-> 0, reasons |-> <<>>, conflicts |-> <<>>,
     budget_score |-> 0, budget_overlap |-> <<0, 0>>,
     distance_km |-> 0, location_score |-> 0,
     cleanliness_score |-> 0, sleep_score |-> 0, lifestyle_score |-> 0,
     availability_score |-> 0, reputation_score |-> 0,
     result |-> NoResult]

\* Variant of body_budget: budget_match needs more than 15 points.
body_budget_strict(self, f, s, c) ==
    LET r == _score_budget(self, s, c)
        budget_score == r[1]
    IN  [f EXCEPT
            !.budget_score = budget_score,
            !.budget_overlap = r[2],
            !.score = @ + budget_score,
            !.reasons = IF budget_score > 15
                        THEN Append(@, <<"budget_match", budget_score>>) ELSE @,
            !.conflicts = IF budget_score > 15 THEN @
                          ELSE IF budget_score < 10
                          THEN Append(@, "budget_mismatch") ELSE @]

\* 1. Budget compatibility
body_budget(self, f, s, c) ==
    LET r == _score_budget(self, s, c)
        budget_score == r[1]
    IN  [f EXCEPT
            !.budget_score = budget_score,
            !.budget_overlap = r[2],
            !.score = @ + budget_score,
            !.reasons = IF budget_score >= 15
                        THEN Append(@, <<"budget_match", budget_score>>) ELSE @,
            !.conflicts = IF budget_score >= 15 THEN @
                          ELSE IF budget_score < 10
                          THEN Append(@, "budget_mismatch") ELSE @]

\* Variant of body_location: location_far only beyond DISTANCE_FAR.
body_location_far_only(self, f, s, c) ==
    LET distance_km == _calculate_distance(self, s.latitude, s.longitude,
                                           c.latitude, c.longitude)
        location_score == _score_location(self, distance_km)
    IN  [f EXCEPT
            !.distance_km = distance_km,
            !.location_score = location_score,
            !.score = @ + location_score,
            !.reasons = IF location_score >= 20
                        THEN Append(@, <<"location_close", location_score>>) ELSE @,
            !.conflicts = IF location_score >= 20 THEN @
                          ELSE IF distance_km > DISTANCE_FAR
                          THEN Append(@, "location_far") ELSE @]

\* Variant of body_location: location_far beyond the engine's max_distance_km.
body_location_max_distance(self, f, s, c) ==
    LET distance_km == _calculate_distance(self, s.latitude, s.longitude,
                                           c.latitude, c.longitude)
        location_score == _score_location(self, distance_km)
    IN  [f EXCEPT
            !.distance_km = distance_km,
            !.location_score = location_score,
            !.score = @ + location_score,
            !.reasons = IF location_score >= 20
                        THEN Append(@, <<"location_close", location_score>>) ELSE @,
            !.conflicts = IF location_score >= 20 THEN @
                          ELSE IF distance_km > self.max_distance_km * 1000
                          THEN Append(@, "location_far") ELSE @]

\* 2. Location proximity
body_location(self, f, s, c) ==
    LET distance_km == _calculate_distance(self, s.latitude, s.longitude,
                                           c.latitude, c.longitude)
        location_score == _score_location(self, distance_km)
    IN  [f EXCEPT
            !.distance_km = distance_km,
            !.location_score = location_score,
            !.score = @ + location_score,
            !.reasons = IF location_score >= 20
                        THEN Append(@, <<"location_close", location_score>>) ELSE @,
            !.conflicts = IF location_score >= 20 THEN @
                          ELSE IF distance_km > DISTANCE_ACCEPTABLE
                          THEN Append(@, "location_far") ELSE @]

\* Variant of body_cleanliness: the conflict is tested on its own, below 13
\* points.
body_cleanliness_both(self, f, s, c) ==
    LET cleanliness_score == _score_cleanliness(self, s, c)
    IN  [f EXCEPT
            !.cleanliness_score = cleanliness_score,
            !.score = @ + cleanliness_score,
            !.reasons = IF cleanliness_score >= 12
                        THEN Append(@, <<"cleanliness_match", cleanliness_score>>) ELSE @,
            !.conflicts = IF cleanliness_score < 13
                          THEN Append(@, "cleanliness_conflict") ELSE @]

\* 3. Cleanliness compatibility
body_cleanliness(self, f, s, c) ==
    LET cleanliness_score == _score_cleanliness(self, s, c)
    IN  [f EXCEPT
            !.cleanliness_score = cleanliness_score,
            !.score = @ + cleanliness_score,
            !.reasons = IF cleanliness_score >= 12
                        THEN Append(@, <<"cleanliness_match", cleanliness_score>>) ELSE @,
            !.conflicts = IF cleanliness_score >= 12 THEN @
                          ELSE IF cleanliness_score < 6
                          THEN Append(@, "cleanliness_conflict") ELSE @]

\* 4. Sleep schedule
body_sleep(self, f, s, c) ==
    LET sleep_score == _score_sleep_schedule(self, s, c)
    IN  [f EXCEPT
            !.sleep_score = sleep_score,
            !.score = @ + sleep_score,
            !.reasons = IF sleep_score >= 8
                        THEN Append(@, <<"sleep_schedule_match", sleep_score>>) ELSE @,
            !.conflicts = IF sleep_score >= 8 THEN @
                          ELSE IF sleep_score < 4
                          THEN Append(@, "sleep_conflict") ELSE @]

\* Variant of body_lifestyle: lifestyle_match from 10 points.
body_lifestyle_ten(self, f, s, c) ==
    LET r == _score_lifestyle(self, s, c)
        lifestyle_score == r[1]
    IN  [f EXCEPT
            !.lifestyle_score = lifestyle_score,
            !.score = @ + lifestyle_score,
            !.reasons = IF lifestyle_score >= 10
                        THEN Append(@, <<"lifestyle_match", lifestyle_score>>) ELSE @,
            !.conflicts = @ \o r[2]]

\* 5. Lifestyle compatibility
body_lifestyle(self, f, s, c) ==
    LET r == _score_lifestyle(self, s, c)
        lifestyle_score == r[1]
    IN  [f EXCEPT
            !.lifestyle_score = lifestyle_score,
            !.score = @ + lifestyle_score,
            !.reasons = IF lifestyle_score >= 12
                        THEN Append(@, <<"lifestyle_match", lifestyle_score>>) ELSE @,
            !.conflicts = @ \o r[2]]

\* 6. Availability overlap
body_availability(self, f, s, c) ==
    LET availability_score == _score_availability(self, s, c)
    IN  [f EXCEPT
            !.availability_score = availability_score,
            !.score = @ + availability_score,
            !.reasons = IF availability_score >= 8
                        THEN Append(@, <<"availability_match", availability_score>>) ELSE @]

\* Variant of body_reputation: an equal work status is a reason worth the
\* reputation bonus.
body_reputation_work_status(self, f, s, c) ==
    LET reputation_score == _score_reputation(self, c)
    IN  [f EXCEPT
            !.reputation_score = reputation_score,
            !.score = @ + reputation_score,
            !.reasons = IF s.is_student = c.is_student /\ s.is_working = c.is_working
                        THEN Append(@, <<"work_status_match", reputation_score>>) ELSE @]

\* 7. Reputation bonus
body_reputation(self, f, s, c) ==
    LET reputation_score == _score_reputation(self, c)
    IN  [f EXCEPT
            !.reputation_score = reputation_score,
            !.score = @ + reputation_score]

\* Sort the reasons in place and build the MatchResult.
body_return(self, f, s, c) ==
    LET reasons == sort_reasons(f.reasons)
        explanation ==
            [score |-> f.score,
             top_reasons |-> SubSeq(reasons, 1, Min2(3, Len(reasons))),
             conflicts |-> f.conflicts,
             distance_km |-> round2(f.distance_km),
             budget_overlap |-> f.budget_overlap]
    IN  [f EXCEPT
            !.reasons = reasons,
            !.result = [user_id |-> c.user_id, score |-> f.score,
                        explanation |-> explanation]]

\* The call ends with an exception instead of a MatchResult.
calculate_match_raises(self, s, c) ==
    _calculate_distance_raises(self, s.latitude, s.longitude, c.latitude, c.longitude)

\* The frame at the end of a whole call.
RunCall(self, s, c) ==
    body_return(self,
      body_reputation(self,
        body_availability(self,
          body_lifestyle(self,
            body_sleep(self,
              body_cleanliness(self,
                body_location(self,
                  body_budget(self, NewFrame, s, c),
                  s, c), s, c), s, c), s, c), s, c), s, c), s, c)

calculate_match(self, s, c) == RunCall(self, s, c).result

(***************************************************************************)
(* State: the two profiles handed to the engine, the engine instances and  *)
(* the calls.                                                              *)
(***************************************************************************)
EngineIds == 1..NumEngines

CallIds == 1..NumCalls

\* Engine 1 has the default max_distance_km (and that of the settings);
\* every further engine has a smaller one.
EngineConfig(e) == IF e = 1 THEN 50 ELSE 30 - 10 * e

AsCandidate(p) == [p EXCEPT !.user_id = 2]

InitEngines ==
    /\ engines = [e \in EngineIds |-> MatchingEngineV1(EngineConfig(e))]
    /\ calls = [k \in CallIds |-> NewFrame]

\* No request on the matching service, no message sent yet.
NoRequest ==
    [op |-> "none", page |-> 0, page_size |-> 0, min_score |-> <<>>, target_user_id |-> 0]

NoResponse == [status |-> 0, matches |-> <<>>, total |-> 0, page |-> 0, page_size |-> 0]

InitCommon ==
    /\ InitEngines
    /\ service = [db |-> <<>>, request |-> NoRequest, response |-> NoResponse]
    /\ messages = <<>>
    /\ conversations = <<>>

Init ==
    /\ seeker \in ProfilePool
    /\ candidate \in {AsCandidate(p) : p \in ProfilePool}
    /\ InitCommon

\* A whole call of calculate_match on engine e, as one step.  When the
\* distance computation raises, the call ends there, after the budget step.
Call(k, e) ==
    /\ calls[k].pc = "idle"
    /\ calls' = [calls EXCEPT ![k] =
                    IF calculate_match_raises(engines[e], seeker, candidate)
                    THEN [body_budget(engines[e], NewFrame, seeker, candidate) EXCEPT
                            !.pc = "raised", !.engine = e]
                    ELSE [RunCall(engines[e], seeker, candidate) EXCEPT
                            !.pc = "done", !.engine = e]]
    /\ UNCHANGED <<seeker, candidate, engines, service, messages, conversations>>

\* The caller has consumed the result or the exception; the frame is gone.
Discard(k) ==
    /\ calls[k].pc \in {"done", "raised"}
    /\ calls' = [calls EXCEPT ![k] = NewFrame]
    /\ UNCHANGED <<seeker, candidate, engines, service, messages, conversations>>

Next ==
    \/ \E e \in EngineIds : Call(1, e)
    \/ Discard(1)

Spec == Init /\ [][Next]_vars

(***************************************************************************)
(* Calls on out-of-range input.  The engine itself validates nothing, so a *)
(* caller that bypasses the schemas can pass it any values.                *)
(***************************************************************************)
UncheckedVariants(b) ==
    {[b EXCEPT !.reputation_score = r] : r \in {-20, -1, 101, 150}}
    \cup {[b EXCEPT !.budget_min = r[2], !.budget_max = r[1]] :
            r \in {q \in BudgetRanges : q[1] < q[2]}}
    \cup {[b EXCEPT !.cleanliness_level = "messy"],
          [b EXCEPT !.sleep_schedule = "nocturnal"],
          [b EXCEPT !.guest_frequency = "always"]}

UncheckedPool == UNION {UncheckedVariants(b) : b \in BaseProfiles}

InitUnchecked ==
    /\ seeker \in BaseProfiles \cup UncheckedPool
    /\ candidate \in {AsCandidate(p) : p \in BaseProfiles \cup UncheckedPool}
    /\ InitCommon

SpecUnchecked == InitUnchecked /\ [][Next]_vars

(***************************************************************************)
(* Calls on the edge cases of the arithmetic: budget ranges of zero width, *)
(* identical and antipodal coordinates, and cleanliness, sleep or guest    *)
(* values that the tables do not hold.                                     *)
(***************************************************************************)
EdgeVariants(b) ==
    {[b EXCEPT !.budget_min = v, !.budget_max = v] : v \in {1000, 1200, 1500}}
    \cup {[b EXCEPT !.latitude = g[1], !.longitude = g[2]] : g \in AntipodalPoints}
    \cup {[b EXCEPT !.cleanliness_level = "messy"],
          [b EXCEPT !.sleep_schedule = "nocturnal"],
          [b EXCEPT !.guest_frequency = "always"]}

EdgePool == BaseProfiles \cup UNION {EdgeVariants(b) : b \in BaseProfiles}

InitEdge ==
    /\ seeker \in EdgePool
    /\ candidate \in {AsCandidate(p) : p \in EdgePool}
    /\ InitCommon

SpecEdge == InitEdge /\ [][Next]_vars

(***************************************************************************)
(* Interleaved calls: each call advances one component at a time, and the  *)
(* steps of different calls interleave in any order.                       *)
(***************************************************************************)
\* The candidates of the interleaved calls: the two base profiles, the
\* candidate of test_partial_budget_overlap and the base profile with
\* another location, cleanliness, sleep schedule or lifestyle.
InterleavedPool ==
    BaseProfiles
    \cup {[base_profile EXCEPT !.budget_min = 1200, !.budget_max = 1800]}
    \cup LocationVariants(base_profile) \cup CleanlinessVariants(base_profile)
    \cup SleepVariants(base_profile) \cup LifestyleVariants(base_profile)

InitInterleaved ==
    /\ seeker \in BaseProfiles
    /\ candidate \in {AsCandidate(p) : p \in InterleavedPool}
    /\ InitCommon

\* Entry of calculate_match on engine e: score = 0, reasons = [], conflicts = [].
Begin(k, e) ==
    /\ calls[k].pc = "idle"
    /\ calls' = [calls EXCEPT ![k] = [NewFrame EXCEPT !.pc = "budget", !.engine = e]]
    /\ UNCHANGED <<seeker, candidate, engines, service, messages, conversations>>

\* Variant of StepBudget: the step narrows the candidate's budget to the
\* overlap, in place.
StepBudget_in_place(k) ==
    /\ calls[k].pc = "budget"
    /\ calls' = [calls EXCEPT ![k] =
            [body_budget(engines[@.engine], @, seeker, candidate) EXCEPT
                !.pc = "location"]]
    /\ candidate' =
         IF Min2(seeker.budget_max, candidate.budget_max)
               < Max2(seeker.budget_min, candidate.budget_min)
         THEN candidate
         ELSE [candidate EXCEPT
                 !.budget_min = Max2(seeker.budget_min, candidate.budget_min),
                 !.budget_max = Min2(seeker.budget_max, candidate.budget_max)]
    /\ UNCHANGED <<seeker, engines, service, messages, conversations>>

StepBudget(k) ==
    /\ calls[k].pc = "budget"
    /\ calls' = [calls EXCEPT ![k] =
            [body_budget(engines[@.engine], @, seeker, candidate) EXCEPT
                !.pc = "location"]]
    /\ UNCHANGED <<seeker, candidate, engines, service, messages, conversations>>

StepLocation(k) ==
    /\ calls[k].pc = "location"
    /\ calls' = [calls EXCEPT ![k] =
            IF calculate_match_raises(engines[@.engine], seeker, candidate)
            THEN [@ EXCEPT !.pc = "raised"]
            ELSE [body_location(engines[@.engine], @, seeker, candidate) EXCEPT
                    !.pc = "cleanliness"]]
    /\ UNCHANGED <<seeker, candidate, engines, service, messages, conversations>>

StepCleanliness(k) ==
    /\ calls[k].pc = "cleanliness"
    /\ calls' = [calls EXCEPT ![k] =
            [body_cleanliness(engines[@.engine], @, seeker, candidate) EXCEPT
                !.pc = "sleep"]]
    /\ UNCHANGED <<seeker, candidate, engines, service, messages, conversations>>

StepSleep(k) ==
    /\ calls[k].pc = "sleep"
    /\ calls' = [calls EXCEPT ![k] =
            [body_sleep(engines[@.engine], @, seeker, candidate) EXCEPT
                !.pc = "lifestyle"]]
    /\ UNCHANGED <<seeker, candidate, engines, service, messages, conversations>>

StepLifestyle(k) ==
    /\ calls[k].pc = "lifestyle"
    /\ calls' = [calls EXCEPT ![k] =
            [body_lifestyle(engines[@.engine], @, seeker, candidate) EXCEPT
                !.pc = "availability"]]
    /\ UNCHANGED <<seeker, candidate, engines, service, messages, conversations>>

StepAvailability(k) ==
    /\ calls[k].pc = "availability"
    /\ calls' = [calls EXCEPT ![k] =
            [body_availability(engines[@.engine], @, seeker, candidate) EXCEPT
                !.pc = "reputation"]]
    /\ UNCHANGED <<seeker, candidate, engines, service, messages, conversations>>

StepReputation(k) ==
    /\ calls[k].pc = "reputation"
    /\ calls' = [calls EXCEPT ![k] =
            [body_reputation(engines[@.engine], @, seeker, candidate) EXCEPT
                !.pc = "return"]]
    /\ UNCHANGED <<seeker, candidate, engines, service, messages, conversations>>

StepReturn(k) ==
    /\ calls[k].pc = "return"
    /\ calls' = [calls EXCEPT ![k] =
            [body_return(engines[@.engine], @, seeker, candidate) EXCEPT
                !.pc = "done"]]
    /\ UNCHANGED <<seeker, candidate, engines, service, messages, conversations>>

NextInterleaved ==
    \/ \E k \in CallIds, e \in EngineIds : Begin(k, e)
    \/ \E k \in CallIds : StepBudget(k)
    \/ \E k \in CallIds : StepLocation(k)
    \/ \E k \in CallIds : StepCleanliness(k)
    \/ \E k \in CallIds : StepSleep(k)
    \/ \E k \in CallIds : StepLifestyle(k)
    \/ \E k \in CallIds : StepAvailability(k)
    \/ \E k \in CallIds : StepReputation(k)
    \/ \E k \in CallIds : StepReturn(k)
    \/ \E k \in CallIds : Discard(k)

SpecInterleaved == InitInterleaved /\ [][NextInterleaved]_vars

(***************************************************************************)
(* Properties.                                                             *)
(***************************************************************************)
Done(k) == calls[k].pc = "done"

SelfOf(k) == engines[calls[k].engine]

SeqToSet(q) == {q[i] : i \in 1..Len(q)}

\* p and q are equal in every field but user_id.
SameButUserId(p, q) == [q EXCEPT !.user_id = p.user_id] = p

\* C1: for well-formed seeker and candidate the returned score is an integer
\* with 0 <= score <= 100 (in the result and in its explanation).
C1_ScoreRange ==
    \A k \in CallIds :
        (Done(k) /\ WellFormed(seeker) /\ WellFormed(candidate)) =>
            /\ calls[k].result.score \in 0..100
            /\ calls[k].result.explanation.score \in 0..100

C1_Witness ==
    \E k \in CallIds :
        /\ Done(k) /\ WellFormed(seeker) /\ WellFormed(candidate)
        /\ calls[k].result.score = 100

\* C2: two calls with the same (seeker, candidate), on the same or on
\* different engine instances, return equal MatchResult values.
C2_Deterministic ==
    \A j, k \in CallIds :
        (Done(j) /\ Done(k)) => calls[j].result = calls[k].result

C2_Witness ==
    \E j, k \in CallIds :
        /\ j # k /\ Done(j) /\ Done(k)
        /\ calls[j].engine # calls[k].engine
        /\ calls[j].result.explanation.distance_km > 3000
        /\ calls[j].result.explanation.distance_km < 5000

\* C3: no step of a call writes the input profiles or the engine instances,
\* and every call, however its steps interleave with those of other calls,
\* returns the result the call returns when run alone.
C3_NoSharedWrites ==
    /\ [][UNCHANGED <<seeker, candidate, engines>>]_vars
    /\ [](\A k \in CallIds :
            Done(k) => calls[k].result = calculate_match(SelfOf(k), seeker, candidate))

C3_Witness ==
    \E j, k \in CallIds :
        /\ j # k /\ Done(j)
        /\ calls[j].engine = calls[k].engine
        /\ calls[k].pc = "lifestyle"
        /\ calls[j].result.explanation.conflicts # <<>>

\* C4: each sub-score lies between 0 and its weight, for any input values,
\* also ones outside the documented ranges.
C4_SubScoresClamped ==
    \A k \in CallIds :
        Done(k) =>
            /\ calls[k].budget_score \in 0..WEIGHT_BUDGET
            /\ calls[k].location_score \in 0..WEIGHT_LOCATION
            /\ calls[k].cleanliness_score \in 0..WEIGHT_CLEANLINESS
            /\ calls[k].sleep_score \in 0..WEIGHT_SLEEP
            /\ calls[k].lifestyle_score \in 0..WEIGHT_LIFESTYLE
            /\ calls[k].availability_score \in 0..WEIGHT_AVAILABILITY
            /\ calls[k].reputation_score \in 0..WEIGHT_REPUTATION

C6_ReputationMonotone ==
    \A k \in CallIds :
        Done(k) =>
            /\ calls[k].reputation_score = (candidate.reputation_score * 5) \div 100
            /\ \A r2 \in Reputations :
                 candidate.reputation_score <= r2 =>
                    calls[k].result.score
                      <= calculate_match(SelfOf(k), seeker,
                                         [candidate EXCEPT !.reputation_score = r2]).score

C6_Witness ==
    \E k \in CallIds :
        /\ Done(k)
        /\ candidate.reputation_score = 59
        /\ calls[k].reputation_score = 2
        /\ calls[k].result.score
             < calculate_match(SelfOf(k), seeker,
                               [candidate EXCEPT !.reputation_score = 60]).score

\* Position of a reason's component in the order in which calculate_match
\* evaluates the components.
ComponentOrder(reason) ==
    CHOOSE i \in 1..6 :
        <<"budget_match", "location_close", "cleanliness_match",
          "sleep_schedule_match", "lifestyle_match", "availability_match">>[i] = reason

\* The pair a comes before the pair b: more points, or as many and an
\* earlier component.
ReasonBefore(a, b) ==
    \/ a[2] > b[2]
    \/ a[2] = b[2] /\ ComponentOrder(a[1]) < ComponentOrder(b[1])

\* C7: top_reasons is the first three (fewer if fewer were triggered) of the
\* triggered pairs by points descending, ties in component order; for
\* identical profiles cleanliness_match (15) is listed, lifestyle_match not.
C7_TopReasons ==
    \A k \in CallIds :
        Done(k) =>
            LET top == calls[k].result.explanation.top_reasons
                triggered == SeqToSet(calls[k].reasons)
            IN  /\ Len(top) = Min2(3, Cardinality(triggered))
                /\ \A i \in 1..Len(top) : top[i] \in triggered
                /\ \A i, j \in 1..Len(top) : i < j => ReasonBefore(top[i], top[j])
                /\ \A t \in triggered \ SeqToSet(top) :
                      \A i \in 1..Len(top) : ReasonBefore(top[i], t)
                /\ SameButUserId(seeker, candidate) =>
                      /\ <<"cleanliness_match", 15>> \in SeqToSet(top)
                      /\ <<"lifestyle_match", 15>> \in triggered \ SeqToSet(top)

C7_Witness ==
    \E k \in CallIds :
        /\ Done(k) /\ SameButUserId(seeker, candidate)
        /\ Len(calls[k].reasons) = 6
        /\ calls[k].result.explanation.top_reasons
             = <<<<"location_close", 25>>, <<"budget_match", 20>>,
                 <<"cleanliness_match", 15>>>>

\* C8: when the budget ranges do not overlap, the budget sub-score is 0,
\* budget_overlap is (0, 0) and budget_mismatch is among the conflicts.
C8_NoBudgetOverlap ==
    \A k \in CallIds :
        (Done(k) /\ Min2(seeker.budget_max, candidate.budget_max)
                      < Max2(seeker.budget_min, candidate.budget_min)) =>
            /\ calls[k].budget_score = 0
            /\ calls[k].result.explanation.budget_overlap = <<0, 0>>
            /\ "budget_mismatch" \in SeqToSet(calls[k].result.explanation.conflicts)

C8_Witness ==
    \E k \in CallIds :
        /\ Done(k)
        /\ seeker.budget_min = 1000 /\ seeker.budget_max = 1500
        /\ candidate.budget_min = 1600 /\ candidate.budget_max = 1800
        /\ calls[k].result.explanation.budget_overlap = <<0, 0>>

\* C9: when the ranges overlap, budget_overlap is (max of the minima, min of
\* the maxima) and the points are the integer part of
\* 20 * min(overlap_range / avg_range, 1), 20 when avg_range is 0;
\* 1000-1500 against 1200-1800 gives (1200, 1500) and 10 points.
C9_BudgetOverlap ==
    \A k \in CallIds :
        LET lo == Max2(seeker.budget_min, candidate.budget_min)
            hi == Min2(seeker.budget_max, candidate.budget_max)
            widths == (seeker.budget_max - seeker.budget_min)
                        + (candidate.budget_max - candidate.budget_min)
        IN  (Done(k) /\ WellFormed(seeker) /\ WellFormed(candidate) /\ hi >= lo) =>
                /\ calls[k].result.explanation.budget_overlap = <<lo, hi>>
                /\ calls[k].budget_score
                     = IF widths = 0 \/ 2 * (hi - lo) >= widths THEN 20
                       ELSE (20 * 2 * (hi - lo)) \div widths
                /\ (/\ seeker.budget_min = 1000 /\ seeker.budget_max = 1500
                    /\ candidate.budget_min = 1200 /\ candidate.budget_max = 1800) =>
                      /\ calls[k].result.explanation.budget_overlap = <<1200, 1500>>
                      /\ calls[k].budget_score = 10

C9_Witness ==
    \E k \in CallIds :
        /\ Done(k)
        /\ seeker.budget_min = 1000 /\ seeker.budget_max = 1500
        /\ candidate.budget_min = 1200 /\ candidate.budget_max = 1800
        /\ calls[k].budget_score = 10

\* C10: budget_match is triggered exactly when the budget points are >= 15,
\* budget_mismatch is a conflict exactly when they are < 10; for 10..14
\* neither is emitted.
C10_BudgetSignals ==
    \A k \in CallIds :
        Done(k) =>
            /\ "budget_match" \in {calls[k].reasons[i][1] : i \in 1..Len(calls[k].reasons)}
                 <=> calls[k].budget_score >= 15
            /\ <<"budget_match", calls[k].budget_score>> \in SeqToSet(calls[k].reasons)
                 <=> calls[k].budget_score >= 15
            /\ "budget_mismatch" \in SeqToSet(calls[k].result.explanation.conflicts)
                 <=> calls[k].budget_score < 10

C10_Witness ==
    \E k \in CallIds :
        /\ Done(k)
        /\ calls[k].budget_score \in 10..14
        /\ "budget_mismatch" \notin SeqToSet(calls[k].result.explanation.conflicts)
        /\ \A i \in 1..Len(calls[k].reasons) : calls[k].reasons[i][1] # "budget_match"

(***************************************************************************)
(* Direct calls of _score_location, on every whole-metre distance up to    *)
(* MaxDistanceKm.  The frame keeps the argument and the returned points.   *)
(***************************************************************************)
MaxDistanceKm == 60

Distances == 0..(MaxDistanceKm * 1000)

InitLocation ==
    /\ seeker = base_profile
    /\ candidate = AsCandidate(base_profile)
    /\ InitCommon

ScoreLocation(k, e, d) ==
    /\ calls[k].pc = "idle"
    /\ calls' = [calls EXCEPT ![k] =
            [NewFrame EXCEPT
                !.pc = "scored", !.engine = e,
                !.distance_km = d,
                !.location_score = _score_location(engines[e], d)]]
    /\ UNCHANGED <<seeker, candidate, engines, service, messages, conversations>>

\* One call at a time: the next one starts from an idle frame.
NextLocation ==
    /\ calls[1].pc = "idle"
    /\ \E e \in EngineIds, d \in Distances : ScoreLocation(1, e, d)

SpecLocation == InitLocation /\ [][NextLocation]_vars

Scored(k) == calls[k].pc = "scored"

\* C11: the location points are 25 up to 5 km, the integer part of
\* 25 * (1 - 0.2 * (d - 5) / 10) up to 15 km, of
\* 25 * (1 - 0.4 * (d - 15) / 15) * 0.8 up to 30 km, of
\* 25 * (1 - (d - 30) / 20) * 0.4 up to 50 km, and 0 beyond.
\* (d is calls[k].distance_km / 1000.)
C11_LocationBands ==
    \A k \in CallIds :
        Scored(k) =>
            LET m == calls[k].distance_km
            IN  calls[k].location_score =
                  IF m <= 5000 THEN 25
                  ELSE IF m <= 15000
                       THEN (25 * (100000 - 2 * (m - 5000))) \div 100000
                  ELSE IF m <= 30000
                       THEN (25 * (150000 - 4 * (m - 15000)) * 8) \div 1500000
                  ELSE IF m <= 50000
                       THEN (25 * (20000 - (m - 30000)) * 4) \div 200000
                  ELSE 0

\* The names of the reasons and the conflicts of a call.
ReasonNames(k) == {calls[k].reasons[i][1] : i \in 1..Len(calls[k].reasons)}

TopReasonNames(k) ==
    {calls[k].result.explanation.top_reasons[i][1] :
        i \in 1..Len(calls[k].result.explanation.top_reasons)}

Conflicts(k) == SeqToSet(calls[k].result.explanation.conflicts)

\* C12: location_close is triggered exactly when the location points are
\* >= 20, location_far is a conflict exactly when the distance is > 30 km;
\* beyond 50 km the points are 0 and location_far is present.
C12_LocationSignals ==
    \A k \in CallIds :
        Done(k) =>
            /\ "location_close" \in ReasonNames(k) <=> calls[k].location_score >= 20
            /\ <<"location_close", calls[k].location_score>> \in SeqToSet(calls[k].reasons)
                 <=> calls[k].location_score >= 20
            /\ "location_far" \in Conflicts(k) <=> calls[k].distance_km > 30 * 1000
            /\ calls[k].distance_km > 50 * 1000 =>
                 /\ calls[k].location_score = 0
                 /\ "location_far" \in Conflicts(k)

C12_Witness ==
    \E k \in CallIds :
        /\ Done(k)
        /\ calls[k].distance_km > 30 * 1000 /\ calls[k].distance_km <= 50 * 1000
        /\ calls[k].location_score > 0
        /\ "location_far" \in Conflicts(k)

\* C13: for every ordered pair of cleanliness levels the points are the
\* integer part of 15 times the table coefficient of the unordered pair, the
\* same in both orders, 15 for equal levels, never the default; the reason
\* is triggered exactly for >= 12 points, the conflict exactly for < 6;
\* very_clean against relaxed gives 0 points and the conflict.
C13_Cleanliness ==
    \A k \in CallIds :
        (Done(k) /\ seeker.cleanliness_level \in CleanlinessLevel
                 /\ candidate.cleanliness_level \in CleanlinessLevel) =>
            LET a == seeker.cleanliness_level
                b == candidate.cleanliness_level
                key == IF <<a, b>> \in DOMAIN CLEANLINESS_COMPATIBILITY
                       THEN <<a, b>> ELSE <<b, a>>
                points == calls[k].cleanliness_score
            IN  /\ key \in DOMAIN CLEANLINESS_COMPATIBILITY
                /\ points = (15 * CLEANLINESS_COMPATIBILITY[key]) \div 10
                /\ points = _score_cleanliness(SelfOf(k), candidate, seeker)
                /\ a = b => points = 15
                /\ "cleanliness_match" \in ReasonNames(k) <=> points >= 12
                /\ "cleanliness_conflict" \in Conflicts(k) <=> points < 6
                /\ {a, b} = {"very_clean", "relaxed"} =>
                      /\ points = 0
                      /\ "cleanliness_conflict" \in Conflicts(k)

C13_Witness ==
    \E k \in CallIds :
        /\ Done(k)
        /\ seeker.cleanliness_level = "relaxed"
        /\ candidate.cleanliness_level = "very_clean"
        /\ calls[k].cleanliness_score = 0
        /\ "cleanliness_conflict" \in Conflicts(k)

C15_AdjacentSleepListed ==
    \A k \in CallIds :
        (/\ Done(k)
         /\ {seeker.sleep_schedule, candidate.sleep_schedule}
               \in {{"early_bird", "normal"}, {"normal", "night_owl"}}
         /\ SameButUserId(seeker,
                [candidate EXCEPT !.sleep_schedule = seeker.sleep_schedule])) =>
            "sleep_schedule_match" \in TopReasonNames(k)

\* never = 0, rarely = 1, sometimes = 2, often = 3.
GuestLevel(g) ==
    CASE g = "never" -> 0 [] g = "rarely" -> 1 [] g = "sometimes" -> 2 [] g = "often" -> 3

GuestDiff == Abs(GuestLevel(seeker.guest_frequency) - GuestLevel(candidate.guest_frequency))

FlagPoints(a, b) == IF a = b THEN 5 ELSE 0

\* C16: the smoking and the pets sub-check each add 5 lifestyle points
\* exactly when the two flags are equal (the lifestyle score is 5 below the
\* one of a candidate with the seeker's flag otherwise), and smoking_conflict
\* (pets_conflict) is present exactly when the seeker's flag is false and the
\* candidate's is true.
C16_SmokingPets ==
    \A k \in CallIds :
        Done(k) =>
            LET same_smoking == [candidate EXCEPT !.smoking_ok = seeker.smoking_ok]
                same_pets == [candidate EXCEPT !.pets_ok = seeker.pets_ok]
            IN  /\ calls[k].lifestyle_score
                     = _score_lifestyle(SelfOf(k), seeker, same_smoking)[1]
                         - (5 - FlagPoints(seeker.smoking_ok, candidate.smoking_ok))
                /\ calls[k].lifestyle_score
                     = _score_lifestyle(SelfOf(k), seeker, same_pets)[1]
                         - (5 - FlagPoints(seeker.pets_ok, candidate.pets_ok))
                /\ "smoking_conflict" \in Conflicts(k)
                     <=> (~seeker.smoking_ok /\ candidate.smoking_ok)
                /\ "pets_conflict" \in Conflicts(k)
                     <=> (~seeker.pets_ok /\ candidate.pets_ok)

C16_Witness ==
    \E k \in CallIds :
        /\ Done(k)
        /\ seeker.smoking_ok /\ ~candidate.smoking_ok
        /\ ~seeker.pets_ok /\ candidate.pets_ok
        /\ Conflicts(k) \cap {"smoking_conflict", "pets_conflict"} = {"pets_conflict"}
        /\ calls[k].lifestyle_score = 5

\* C17: a guest-frequency difference of 0 adds 5 points, of 1 adds 3, of 2
\* adds nothing and no conflict, of 3 adds nothing and the conflict
\* guest_frequency_conflict, which so arises only for never against often.
C17_GuestFrequency ==
    \A k \in CallIds :
        (Done(k) /\ seeker.guest_frequency \in GuestFrequency
                 /\ candidate.guest_frequency \in GuestFrequency) =>
            /\ calls[k].lifestyle_score
                 - FlagPoints(seeker.smoking_ok, candidate.smoking_ok)
                 - FlagPoints(seeker.pets_ok, candidate.pets_ok)
                 = CASE GuestDiff = 0 -> 5 [] GuestDiff = 1 -> 3
                     [] GuestDiff = 2 -> 0 [] GuestDiff = 3 -> 0
            /\ "guest_frequency_conflict" \in Conflicts(k) <=> GuestDiff = 3
            /\ "guest_frequency_conflict" \in Conflicts(k)
                 <=> {seeker.guest_frequency, candidate.guest_frequency} = {"never", "often"}

C17_Witness ==
    \E k \in CallIds :
        /\ Done(k)
        /\ seeker.guest_frequency = "sometimes" /\ candidate.guest_frequency = "never"
        /\ seeker.smoking_ok = candidate.smoking_ok /\ seeker.pets_ok = candidate.pets_ok
        /\ calls[k].lifestyle_score = 10
        /\ "guest_frequency_conflict" \notin Conflicts(k)

\* C18: the lifestyle score is one of 0, 3, 5, 8, 10, 13, 15, and
\* lifestyle_match is triggered exactly when it is >= 12, that is exactly
\* when the smoking flags are equal, the pets flags are equal and the
\* guest-frequency difference is at most 1.
C18_Lifestyle ==
    \A k \in CallIds :
        (Done(k) /\ seeker.guest_frequency \in GuestFrequency
                 /\ candidate.guest_frequency \in GuestFrequency) =>
            /\ calls[k].lifestyle_score \in {0, 3, 5, 8, 10, 13, 15}
            /\ "lifestyle_match" \in ReasonNames(k) <=> calls[k].lifestyle_score >= 12
            /\ <<"lifestyle_match", calls[k].lifestyle_score>> \in SeqToSet(calls[k].reasons)
                 <=> (/\ seeker.smoking_ok = candidate.smoking_ok
                      /\ seeker.pets_ok = candidate.pets_ok
                      /\ GuestDiff <= 1)

C18_Witness ==
    \E k \in CallIds :
        /\ Done(k)
        /\ calls[k].lifestyle_score = 13
        /\ "lifestyle_match" \in ReasonNames(k)

NoDates(p) == [p EXCEPT !.move_in_earliest = "None", !.move_in_latest = "None"]

\* C19: the availability points are 10 when both look for short-term or both
\* look for long-term and 0 otherwise; availability_match is triggered
\* exactly for 10 points; the result does not depend on the move-in dates.
C19_Availability ==
    \A k \in CallIds :
        Done(k) =>
            LET shared == \/ seeker.looking_for_short_term /\ candidate.looking_for_short_term
                          \/ seeker.looking_for_long_term /\ candidate.looking_for_long_term
            IN  /\ calls[k].availability_score = IF shared THEN 10 ELSE 0
                /\ "availability_match" \in ReasonNames(k)
                     <=> calls[k].availability_score = 10
                /\ calls[k].result
                     = calculate_match(SelfOf(k), NoDates(seeker), NoDates(candidate))

C19_Witness ==
    \E k \in CallIds :
        /\ Done(k)
        /\ seeker.move_in_latest = "2025-02-01"
        /\ candidate.move_in_earliest = "2025-06-01"
        /\ calls[k].availability_score = 10

\* The total score of the call's candidate with another reputation_score.
ScoreWithReputation(k, r) ==
    calculate_match(SelfOf(k), seeker, [candidate EXCEPT !.reputation_score = r]).score

\* C20 as stated: a candidate with a higher reputation_score, all else
\* equal, gets a strictly higher total score.
C20_StrictlyHigher ==
    \A k \in CallIds :
        Done(k) =>
            \A r_low \in Reputations :
                r_low < candidate.reputation_score =>
                    calls[k].result.score > ScoreWithReputation(k, r_low)

\* C20 amended: the total score for r_high exceeds the one for r_low by
\* r_high div 20 - r_low div 20, so it is never lower and strictly higher
\* exactly when the two reputations lie in different bands of 20.
C20_HigherByBands ==
    \A k \in CallIds :
        Done(k) =>
            \A r_low \in Reputations :
                r_low < candidate.reputation_score =>
                    /\ calls[k].result.score - ScoreWithReputation(k, r_low)
                         = (candidate.reputation_score \div 20) - (r_low \div 20)
                    /\ calls[k].result.score >= ScoreWithReputation(k, r_low)

C20_Witness ==
    \E k \in CallIds :
        /\ Done(k)
        /\ candidate.reputation_score = 59
        /\ calls[k].result.score = ScoreWithReputation(k, 50)
        /\ calls[k].result.score < ScoreWithReputation(k, 100)


\* Values of the constructor parameter max_distance_km, in km.
MaxDistanceValues == {1, 10, 30, 100}

\* C21: max_distance_km has no effect: the result of a call equals the
\* result of an engine built with any other max_distance_km, and the
\* location points change band at 5, 15, 30 and 50 km whatever the engine.
C21_MaxDistanceIgnored ==
    \A k \in CallIds :
        Done(k) =>
            /\ \A m \in MaxDistanceValues :
                  calls[k].result = calculate_match(MatchingEngineV1(m), seeker, candidate)
            /\ LET d == calls[k].distance_km
                   p == calls[k].location_score
               IN  /\ d <= 5000 => p = 25
                   /\ (5000 < d /\ d <= 15000) => (20 <= p /\ p <= 25)
                   /\ (15000 < d /\ d <= 30000) => (12 <= p /\ p <= 20)
                   /\ (30000 < d /\ d <= 50000) => (0 <= p /\ p <= 9)
                   /\ d > 50000 => p = 0

C21_Witness ==
    \E k \in CallIds :
        /\ Done(k)
        /\ engines[calls[k].engine].max_distance_km < 50
        /\ calls[k].distance_km > engines[calls[k].engine].max_distance_km * 1000
        /\ calls[k].distance_km <= 30000
        /\ calls[k].location_score >= 12
        /\ "location_far" \notin Conflicts(k)


Raised(k) == calls[k].pc = "raised"

\* C22: calculate_match is total: no call ends with an exception, a call
\* on two budget ranges of zero width, on identical coordinates or on values
\* missing from the tables included.
C22_Total ==
    \A k \in CallIds : ~Raised(k)


(***************************************************************************)
(* The matching service (services/matching_service.py) and its routes      *)
(* (api/routes/matches.py).  service.db is the user table: every user is   *)
(* active and has a profile and preferences; Optional[int] values are      *)
(* <<>> for None and <<n>> for n.                                          *)
(***************************************************************************)
NumUsers == 3

MaxPage == 2

MaxPageSize == 2

\* Settings.
matching_max_distance_km == 50

matching_min_score_threshold == 30

\* MatchingService.__init__
MatchingService == [engine |-> MatchingEngineV1(matching_max_distance_km)]

\* The profiles of the other users, which score 100, 75, 31 and 26 for the
\* seeker base_profile.
ServiceProfiles ==
    {base_profile,
     [base_profile EXCEPT !.latitude = 407128, !.longitude = -740060],
     poor_profile,
     [poor_profile EXCEPT !.reputation_score = 0]}

MinScores == {<<>>, <<0>>, <<50>>}

_load_user_match_profile(db, user_id) ==
    LET Wanted(u) == u.user_id = user_id
    IN  SelectSeq(db, Wanted)

\* User.id != seeker_id, at most 100 users.
_load_candidate_profiles(db, seeker_id, seeker_profile) ==
    LET Other(u) == u.user_id # seeker_id
        users == SelectSeq(db, Other)
    IN  SubSeq(users, 1, Min2(Len(users), 100))

\* The loop over the candidates: the results at or above min_score, in the
\* order of the candidates.
RECURSIVE calculate_matches(_, _, _, _)
calculate_matches(self, seeker_profile, candidate_profiles, min_score) ==
    IF candidate_profiles = <<>> THEN <<>>
    ELSE LET result == calculate_match(self.engine, seeker_profile,
                                       Head(candidate_profiles))
             rest == calculate_matches(self, seeker_profile,
                                       Tail(candidate_profiles), min_score)
         IN  IF result.score >= min_score THEN <<result>> \o rest ELSE rest

\* Variant of sort_matches: ascending by score.
RECURSIVE sort_matches_ascending(_)
sort_matches_ascending(match_results) ==
    IF match_results = <<>> THEN <<>>
    ELSE LET sorted == sort_matches_ascending(
                           SubSeq(match_results, 1, Len(match_results) - 1))
             x == match_results[Len(match_results)]
             k == Cardinality({i \in 1..Len(sorted) : sorted[i].score <= x.score})
         IN  SubSeq(sorted, 1, k) \o <<x>> \o SubSeq(sorted, k + 1, Len(sorted))

\* match_results.sort(key = score, reverse = True): stable, descending.
RECURSIVE sort_matches(_)
sort_matches(match_results) ==
    IF match_results = <<>> THEN <<>>
    ELSE LET sorted == sort_matches(SubSeq(match_results, 1, Len(match_results) - 1))
             x == match_results[Len(match_results)]
             k == Cardinality({i \in 1..Len(sorted) : sorted[i].score >= x.score})
         IN  SubSeq(sorted, 1, k) \o <<x>> \o SubSeq(sorted, k + 1, Len(sorted))

\* A MatchResponse for every result whose user is in the table, in order.
_enrich_matches(db, match_results) ==
    LET Known(m) == \E i \in 1..Len(db) : db[i].user_id = m.user_id
        known == SelectSeq(match_results, Known)
    IN  [i \in 1..Len(known) |->
            [user_id |-> known[i].user_id,
             score |-> known[i].score,
             explanation |->
                [score |-> known[i].explanation.score,
                 top_reasons |-> known[i].explanation.top_reasons,
                 conflicts |-> known[i].explanation.conflicts,
                 distance_km |-> known[i].explanation.distance_km,
                 budget_overlap_min |-> known[i].explanation.budget_overlap[1],
                 budget_overlap_max |-> known[i].explanation.budget_overlap[2]]]]

\* min_score or settings.matching_min_score_threshold: None and 0 are falsy.
effective_min_score(min_score) ==
    IF min_score = <<>> \/ min_score = <<0>>
    THEN matching_min_score_threshold ELSE min_score[1]

\* Variant of find_matches: the list is cut to limit before it is sorted.
find_matches_cut_first(self, db, user_id, limit, min_score) ==
    LET seeker_profile == _load_user_match_profile(db, user_id)
    IN  IF seeker_profile = <<>> THEN <<>>
        ELSE LET candidate_profiles ==
                     _load_candidate_profiles(db, user_id, seeker_profile[1])
                 match_results ==
                     calculate_matches(self, seeker_profile[1], candidate_profiles,
                                       effective_min_score(min_score))
                 cut == SubSeq(match_results, 1, Min2(limit, Len(match_results)))
             IN  _enrich_matches(db, sort_matches(cut))

find_matches(self, db, user_id, limit, min_score) ==
    LET seeker_profile == _load_user_match_profile(db, user_id)
    IN  IF seeker_profile = <<>> THEN <<>>
        ELSE LET candidate_profiles ==
                     _load_candidate_profiles(db, user_id, seeker_profile[1])
                 match_results ==
                     calculate_matches(self, seeker_profile[1], candidate_profiles,
                                       effective_min_score(min_score))
                 sorted == sort_matches(match_results)
             IN  _enrich_matches(db, SubSeq(sorted, 1, Min2(limit, Len(sorted))))

\* The user tables: the seeker (user 1) at any place among NumUsers others
\* with the ids 2, 3, ...
UserTables ==
    {[i \in 1..(NumUsers + 1) |->
        IF i < at THEN [others[i] EXCEPT !.user_id = i + 1]
        ELSE IF i = at THEN base_profile
        ELSE [others[i - 1] EXCEPT !.user_id = i] ] :
        others \in [1..NumUsers -> ServiceProfiles], at \in 1..(NumUsers + 1)}

InitService ==
    /\ seeker = base_profile
    /\ candidate = AsCandidate(base_profile)
    /\ InitEngines
    /\ service \in {[db |-> t, request |-> NoRequest, response |-> NoResponse] :
                        t \in UserTables}
    /\ messages = <<>>
    /\ conversations = <<>>

\* GET /matches for the current user (the seeker).
get_matches(page, page_size, min_score) ==
    /\ service.request.op = "none"
    /\ LET matches == find_matches(MatchingService, service.db, seeker.user_id,
                                   page_size, min_score)
       IN  service' = [service EXCEPT
                !.request = [op |-> "get_matches", page |-> page,
                             page_size |-> page_size, min_score |-> min_score,
                             target_user_id |-> 0],
                !.response = [status |-> 200, matches |-> matches,
                              total |-> Len(matches), page |-> page,
                              page_size |-> page_size]]
    /\ UNCHANGED <<seeker, candidate, engines, calls, messages, conversations>>

\* GET /matches/explain/{target_user_id} for the current user.
explain_match(target_user_id) ==
    /\ service.request.op = "none"
    /\ LET matches == find_matches(MatchingService, service.db, seeker.user_id,
                                   100, <<0>>)
           IsTarget(m) == m.user_id = target_user_id
           target_match == SelectSeq(matches, IsTarget)
           request == [op |-> "explain_match", page |-> 0, page_size |-> 0,
                       min_score |-> <<>>, target_user_id |-> target_user_id]
       IN  service' = [service EXCEPT
                !.request = request,
                !.response =
                    IF seeker.user_id = target_user_id
                    THEN [NoResponse EXCEPT !.status = 400]
                    ELSE IF target_match = <<>>
                    THEN [NoResponse EXCEPT !.status = 404]
                    ELSE [NoResponse EXCEPT !.status = 200,
                                            !.matches = <<target_match[1]>>]]
    /\ UNCHANGED <<seeker, candidate, engines, calls, messages, conversations>>

\* The response has been sent.
Respond ==
    /\ service.request.op # "none"
    /\ service' = [service EXCEPT !.request = NoRequest, !.response = NoResponse]
    /\ UNCHANGED <<seeker, candidate, engines, calls, messages, conversations>>

NextService ==
    \/ \E page \in 1..MaxPage, page_size \in 1..MaxPageSize, min_score \in MinScores :
            get_matches(page, page_size, min_score)
    \/ \E target_user_id \in 1..(NumUsers + 2) : explain_match(target_user_id)
    \/ Respond

SpecService == InitService /\ [][NextService]_vars


\* The candidates loaded for the seeker and the score of each.
LoadedCandidates ==
    {service.db[i] : i \in {j \in 1..Len(service.db) :
                               service.db[j].user_id # seeker.user_id}}

ScoreOf(u) == calculate_match(MatchingService.engine, seeker, u).score

Answered(op) == service.request.op = op

ReturnedIds == {service.response.matches[i].user_id :
                   i \in 1..Len(service.response.matches)}

\* C23: a get_matches answer holds only results of loaded candidates at or
\* above the effective minimum score, in non-increasing score order, at most
\* limit of them, none for the seeker, and no qualifying candidate left out
\* scores higher than a returned one.
C23_FindMatches ==
    Answered("get_matches") =>
        LET matches == service.response.matches
            min_score == effective_min_score(service.request.min_score)
        IN  /\ \A i \in 1..Len(matches) :
                  /\ matches[i].score >= min_score
                  /\ matches[i].user_id # seeker.user_id
                  /\ \E u \in LoadedCandidates :
                        u.user_id = matches[i].user_id /\ ScoreOf(u) = matches[i].score
            /\ \A i, j \in 1..Len(matches) :
                  i < j => matches[i].score >= matches[j].score
            /\ Len(matches) <= service.request.page_size
            /\ \A u \in LoadedCandidates :
                  (ScoreOf(u) >= min_score /\ u.user_id \notin ReturnedIds) =>
                      \A i \in 1..Len(matches) : ScoreOf(u) <= matches[i].score

C23_Witness ==
    /\ Answered("get_matches")
    /\ Len(service.response.matches) = 2
    /\ service.response.matches[1].score > service.response.matches[2].score
    /\ \E u \in LoadedCandidates :
          /\ u.user_id \notin ReturnedIds
          /\ ScoreOf(u) >= effective_min_score(service.request.min_score)
          /\ ScoreOf(u) < service.response.matches[2].score

\* C24: an explicitly given min_score is the threshold applied (every
\* returned score is at or above it, and a candidate at or above it is left
\* out only when the answer is full), and explain_match answers with the
\* match for every target among the loaded candidates.
C24_ExplicitMinScore ==
    /\ (Answered("get_matches") /\ service.request.min_score # <<>>) =>
          LET matches == service.response.matches
              min_score == service.request.min_score[1]
          IN  /\ \A i \in 1..Len(matches) : matches[i].score >= min_score
              /\ Len(matches) < service.request.page_size =>
                    \A u \in LoadedCandidates :
                        ScoreOf(u) >= min_score => u.user_id \in ReturnedIds
    /\ (Answered("explain_match")
        /\ \E u \in LoadedCandidates : u.user_id = service.request.target_user_id) =>
          /\ service.response.status = 200
          /\ service.response.matches[1].user_id = service.request.target_user_id

\* All matches at or above the minimum score, in descending score order.
AllMatches ==
    find_matches(MatchingService, service.db, seeker.user_id, Len(service.db),
                 service.request.min_score)

\* C25: get_matches with page p and page_size s answers with the matches at
\* the ranks (p-1)*s+1 .. p*s of the descending list of all matches at or
\* above the minimum score, and total is the length of that list.
C25_Paginated ==
    Answered("get_matches") =>
        LET p == service.request.page
            s == service.request.page_size
        IN  /\ service.response.matches
                 = SubSeq(AllMatches, (p - 1) * s + 1, Min2(p * s, Len(AllMatches)))
            /\ service.response.total = Len(AllMatches)


\* The frame of the call with seeker and candidate swapped.
Swapped(k) == RunCall(SelfOf(k), candidate, seeker)

\* C26: with seeker and candidate swapped the budget, location, cleanliness,
\* sleep, lifestyle and availability points are unchanged, and the scores
\* differ by the difference of the two reputation points.
C26_SymmetricUpToReputation ==
    \A k \in CallIds :
        (Done(k) /\ WellFormed(seeker) /\ WellFormed(candidate)) =>
            /\ calls[k].budget_score = Swapped(k).budget_score
            /\ calls[k].location_score = Swapped(k).location_score
            /\ calls[k].cleanliness_score = Swapped(k).cleanliness_score
            /\ calls[k].sleep_score = Swapped(k).sleep_score
            /\ calls[k].lifestyle_score = Swapped(k).lifestyle_score
            /\ calls[k].availability_score = Swapped(k).availability_score
            /\ calls[k].result.score - Swapped(k).result.score
                 = _score_reputation(SelfOf(k), candidate)
                     - _score_reputation(SelfOf(k), seeker)
            /\ seeker.reputation_score = candidate.reputation_score =>
                  calls[k].result.score = Swapped(k).result.score

C26_Witness ==
    \E k \in CallIds :
        /\ Done(k)
        /\ seeker.reputation_score = 100 /\ candidate.reputation_score = 50
        /\ Swapped(k).result.score = calls[k].result.score + 3
        /\ calls[k].conflicts # Swapped(k).conflicts


\* The reason and the conflicts of each component.
ReasonConflicts ==
    {<<"budget_match", {"budget_mismatch"}>>,
     <<"location_close", {"location_far"}>>,
     <<"cleanliness_match", {"cleanliness_conflict"}>>,
     <<"sleep_schedule_match", {"sleep_conflict"}>>,
     <<"lifestyle_match",
       {"smoking_conflict", "pets_conflict", "guest_frequency_conflict"}>>}

\* C27: in every result the reason of a component, among the triggered
\* reasons or in top_reasons, excludes the conflicts of that component, and
\* conflicts holds each warning at most once.
C27_ReasonExcludesConflict ==
    \A k \in CallIds :
        Done(k) =>
            /\ \A rc \in ReasonConflicts :
                  rc[1] \in ReasonNames(k) \cup TopReasonNames(k) =>
                      Conflicts(k) \cap rc[2] = {}
            /\ Cardinality(Conflicts(k)) = Len(calls[k].result.explanation.conflicts)

C27_Witness ==
    \E k \in CallIds :
        /\ Done(k)
        /\ Cardinality(Conflicts(k)) >= 4
        /\ Cardinality(ReasonNames(k)) >= 2


\* C28: the location points never increase with the distance: the points
\* one metre further, at each band boundary beyond and at the largest
\* distance are at most the points at this distance; they are 12 at exactly
\* 30 km and at most 9 beyond it.
C28_LocationMonotone ==
    \A k \in CallIds :
        Scored(k) =>
            LET d == calls[k].distance_km
                p == calls[k].location_score
                further == {d + 1, DISTANCE_EXCELLENT, DISTANCE_GOOD, DISTANCE_ACCEPTABLE,
                            DISTANCE_ACCEPTABLE + 1, DISTANCE_FAR, MaxDistanceKm * 1000}
            IN  /\ \A d2 \in further \cap Distances :
                      d <= d2 => _score_location(SelfOf(k), d2) <= p
                /\ d = DISTANCE_ACCEPTABLE => p = 12
                /\ d > DISTANCE_ACCEPTABLE => p <= 9

C28_Witness ==
    \E k \in CallIds :
        /\ Scored(k)
        /\ calls[k].distance_km = DISTANCE_ACCEPTABLE
        /\ calls[k].location_score = 12
        /\ _score_location(SelfOf(k), DISTANCE_ACCEPTABLE + 1) = 9


\* The profile with the fields that no scoring step reads set to fixed values.
WithoutUnscored(p) ==
    [p EXCEPT !.age = 0, !.city = "", !.drinking_ok = FALSE,
              !.is_student = FALSE, !.is_working = FALSE]

\* C29: the result does not depend on age, city, drinking_ok, is_student or
\* is_working of either profile nor on the seeker's user_id or
\* reputation_score, and work_status_match is never a reason.
C29_UnscoredFields ==
    \A k \in CallIds :
        Done(k) =>
            /\ calls[k].result
                 = calculate_match(SelfOf(k),
                       [WithoutUnscored(seeker) EXCEPT !.user_id = 0,
                                                       !.reputation_score = 0],
                       WithoutUnscored(candidate))
            /\ "work_status_match" \notin ReasonNames(k) \cup TopReasonNames(k)

C29_Witness ==
    \E k \in CallIds :
        /\ Done(k)
        /\ seeker.is_student /\ ~seeker.is_working
        /\ ~candidate.is_student /\ candidate.is_working
        /\ candidate.age = 40
        /\ calls[k].result.score = 100


(***************************************************************************)
(* The messaging service (services/messages_service.py).  messages is the  *)
(* message table, a message's id being its place in it; conversations is   *)
(* the conversation table.  Every user of MessageUsers exists and is       *)
(* active.                                                                 *)
(***************************************************************************)
NumMessageUsers == 3

MaxMessages == 3

MessageUsers == 1..NumMessageUsers

MessageStatus == {"sent", "delivered", "read"}

\* The places of the conversation of user1_id and user2_id in the table.
select_conversation(convs, user1_id, user2_id) ==
    {i \in 1..Len(convs) : convs[i].user1_id = user1_id /\ convs[i].user2_id = user2_id}

_update_conversation(convs, msgs, user1_id, user2_id, message_id) ==
    LET u1 == Min2(user1_id, user2_id)
        u2 == Max2(user1_id, user2_id)
        found == select_conversation(convs, u1, u2)
        updated ==
            IF found = {}
            THEN Append(convs, [user1_id |-> u1, user2_id |-> u2,
                                last_message_id |-> message_id,
                                unread_count_user1 |-> 0, unread_count_user2 |-> 0])
            ELSE [convs EXCEPT ![CHOOSE i \in found : TRUE].last_message_id = message_id]
        c == CHOOSE i \in select_conversation(updated, u1, u2) : TRUE
        message == msgs[message_id]
    IN  IF message.recipient_id = u1
        THEN [updated EXCEPT ![c].unread_count_user1 = @ + 1]
        ELSE [updated EXCEPT ![c].unread_count_user2 = @ + 1]

_decrement_unread_count(convs, user_id, other_user_id, count) ==
    LET user1_id == Min2(user_id, other_user_id)
        user2_id == Max2(user_id, other_user_id)
        found == select_conversation(convs, user1_id, user2_id)
    IN  IF found = {} THEN convs
        ELSE LET c == CHOOSE i \in found : TRUE
             IN  IF user_id = user1_id
                 THEN [convs EXCEPT ![c].unread_count_user1 = Max2(0, @ - count)]
                 ELSE [convs EXCEPT ![c].unread_count_user2 = Max2(0, @ - count)]

_reset_unread_count(convs, user_id, other_user_id) ==
    LET user1_id == Min2(user_id, other_user_id)
        user2_id == Max2(user_id, other_user_id)
        found == select_conversation(convs, user1_id, user2_id)
    IN  IF found = {} THEN convs
        ELSE LET c == CHOOSE i \in found : TRUE
             IN  IF user_id = user1_id
                 THEN [convs EXCEPT ![c].unread_count_user1 = 0]
                 ELSE [convs EXCEPT ![c].unread_count_user2 = 0]

\* for sender_id in senders: _decrement_unread_count(user_id, sender_id, count)
RECURSIVE decrement_for_senders(_, _, _, _)
decrement_for_senders(convs, user_id, senders, count) ==
    IF senders = {} THEN convs
    ELSE LET sender_id == CHOOSE s \in senders : TRUE
         IN  decrement_for_senders(
                 _decrement_unread_count(convs, user_id, sender_id, count),
                 user_id, senders \ {sender_id}, count)

InitMessages ==
    /\ seeker = base_profile
    /\ candidate = AsCandidate(base_profile)
    /\ InitCommon

\* The requests to oneself or to an unknown user are refused.
send_message(sender_id, recipient_id) ==
    /\ sender_id # recipient_id
    /\ recipient_id \in MessageUsers
    /\ Len(messages) < MaxMessages
    /\ LET message == [id |-> Len(messages) + 1, sender_id |-> sender_id,
                       recipient_id |-> recipient_id, status |-> "sent"]
       IN  /\ messages' = Append(messages, message)
           /\ conversations' = _update_conversation(conversations, messages',
                                    sender_id, recipient_id, message.id)
    /\ UNCHANGED <<seeker, candidate, engines, calls, service>>

mark_as_read(user_id, message_ids) ==
    LET selected == {i \in 1..Len(messages) :
                        /\ messages[i].id \in message_ids
                        /\ messages[i].recipient_id = user_id
                        /\ messages[i].status # "read"}
        count == Cardinality(selected)
        senders == {messages[i].sender_id : i \in selected}
    IN  /\ messages' = [i \in 1..Len(messages) |->
                           IF i \in selected THEN [messages[i] EXCEPT !.status = "read"]
                           ELSE messages[i]]
        /\ conversations' =
               IF count > 0
               THEN decrement_for_senders(conversations, user_id, senders, count)
               ELSE conversations
        /\ UNCHANGED <<seeker, candidate, engines, calls, service>>

mark_conversation_as_read(user_id, other_user_id) ==
    LET selected == {i \in 1..Len(messages) :
                        /\ messages[i].sender_id = other_user_id
                        /\ messages[i].recipient_id = user_id
                        /\ messages[i].status # "read"}
    IN  /\ messages' = [i \in 1..Len(messages) |->
                           IF i \in selected THEN [messages[i] EXCEPT !.status = "read"]
                           ELSE messages[i]]
        /\ conversations' =
               IF selected = {} THEN conversations
               ELSE _reset_unread_count(conversations, user_id, other_user_id)
        /\ UNCHANGED <<seeker, candidate, engines, calls, service>>

NextMessages ==
    \/ \E sender_id \in MessageUsers, recipient_id \in 1..(NumMessageUsers + 1) :
            send_message(sender_id, recipient_id)
    \/ \E user_id \in MessageUsers, message_ids \in SUBSET (1..MaxMessages) :
            mark_as_read(user_id, message_ids)
    \/ \E user_id, other_user_id \in MessageUsers :
            mark_conversation_as_read(user_id, other_user_id)

SpecMessages == InitMessages /\ [][NextMessages]_vars

\* The messages sent to user_id by other_user_id that are not read.
Unread(user_id, other_user_id) ==
    {i \in 1..Len(messages) :
        /\ messages[i].recipient_id = user_id
        /\ messages[i].sender_id = other_user_id
        /\ messages[i].status # "read"}

\* C30: for every conversation and each of its two users, the stored unread
\* count of the user is the number of messages sent to the user by the
\* other one that are not read.
C30_UnreadCounts ==
    \A c \in 1..Len(conversations) :
        LET conversation == conversations[c]
        IN  /\ conversation.unread_count_user1
                 = Cardinality(Unread(conversation.user1_id, conversation.user2_id))
            /\ conversation.unread_count_user2
                 = Cardinality(Unread(conversation.user2_id, conversation.user1_id))

====
